---- MODULE Spec2Model ----
(***************************************************************************)
(* Model of the weather aggregation service (src/src/service.rs) with its  *)
(* providers (src/src/provider.rs): Service::new, Service::forecast,       *)
(* Service::fetch_forecast, the Pos key type and the RwLock-guarded        *)
(* HashMap<Pos, CacheEntry> cache.                                         *)
(*                                                                         *)
(* Numbers: an f32 coordinate is its bit pattern [sign, exp, mant]; its    *)
(* value is counted in units of 2^-23 (= f32::EPSILON), which is exact for *)
(* the zeros and for every float of magnitude 1.0 <= |x| < 128.  A         *)
(* temperature is an exact rational <<numerator, denominator>> in lowest   *)
(* terms (f32 rounding of the sums and of the division is not modelled).   *)
(***************************************************************************)
EXTENDS Integers, Sequences, FiniteSets, TLC

VARIABLES
    svc,        \* "init" before Service::new, then "ready" or "panicked"
    providers,  \* Service.providers: the provider list given to Service::new
    seed,       \* the keys RandomState hands to the hasher of the cache's HashMap
    cities,     \* CITIES: the positions of the catalog, by <<country, city>>
    cache,      \* Service.cache: HashMap<Pos, CacheEntry>, key |-> entry
    readers,    \* tasks holding a read guard of the RwLock
    writer,     \* task holding the write guard of the RwLock, 0 if none
    waitq,      \* FIFO queue of tasks waiting for the RwLock
    calls,      \* per task: position in forecast() and its local variables
    today,      \* what Local::today() returns now
    started,    \* number of forecast() calls begun so far
    lastStore   \* history: per key, the entry handed to the last insert

vars == <<svc, providers, seed, cities, cache, readers, writer, waitq,
          calls, today, started, lastStore>>

-----------------------------------------------------------------------------
(* Bounds of the model *)

NumTasks == 2
MaxCalls == 3
MaxDay == 1
MaxProviders == 2
FewCalls == 2

Tasks == 1..NumTasks
Days == 0..MaxDay

-----------------------------------------------------------------------------
(* f32 and Pos *)

F32(s, e, m) == [sign |-> s, exp |-> e, mant |-> m]

PosZero == F32(0, 0, 0)
NegZero == F32(1, 0, 0)
One == F32(0, 127, 0)
OneEps == F32(0, 127, 1)
OnePlus2Eps == F32(0, 127, 2)

Mantissa == 8388608

\* value of a float in units of 2^-23
F32Val(f) ==
    IF f.exp = 0 /\ f.mant = 0 THEN 0
    ELSE (IF f.sign = 1 THEN -1 ELSE 1) * (Mantissa + f.mant) * 2^(f.exp - 127)

EPSILON == 1

Abs(x) == IF x < 0 THEN -x ELSE x

\* F of the value of v: v is evaluated once, then handed to F
With(v, F(_)) == CHOOSE r \in { F(x) : x \in {v} } : TRUE

\* f32::to_ne_bytes on a little-endian target
ToNeBytes(f) ==
    << f.mant % 256,
       (f.mant \div 256) % 256,
       (f.exp % 2) * 128 + (f.mant \div 65536),
       f.sign * 128 + (f.exp \div 2) >>

\* the hasher is a stand-in for SipHash: a keyed, non-linear byte mixer whose
\* result is the 7-bit tag the table compares before it calls eq
HashMod == 127

RECURSIVE HasherWrite(_, _)
HasherWrite(h, bytes) ==
    IF bytes = <<>> THEN h
    ELSE With(<<h, Head(bytes)>>,
              LAMBDA x : HasherWrite(((x[1] * x[1]) + (x[1] * x[2]) + x[2] + 1) % HashMod,
                                     Tail(bytes)))

\* impl Hash for Pos, fed to the map's hasher (keyed by sd)
PosHash(sd, p) ==
    HasherWrite(HasherWrite(sd, ToNeBytes(p[1])), ToNeBytes(p[2]))

\* impl PartialEq for Pos
PosEq(a, b) ==
    /\ Abs(F32Val(a[1]) - F32Val(b[1])) <= EPSILON
    /\ Abs(F32Val(a[2]) - F32Val(b[2])) <= EPSILON

Pos(lat, lng) == <<lat, lng>>

Chicago == Pos(F32(0, 132, 2582126), F32(1, 133, 3099859))
Moscow == Pos(F32(0, 132, 6226502), F32(0, 132, 1472085))

\* the catalog of cities.json, as far as the tests name it
Catalog == (<<"US", "chicago">> :> Chicago) @@ (<<"RU", "moscow">> :> Moscow)

None == <<>>

Some(x) == <<x>>

\* str::to_lowercase, on the city names that are requested
ToLowercase(name) ==
    CASE name = "Chicago" -> "chicago"
      [] name = "Moscow" -> "moscow"
      [] name = "Sanity" -> "sanity"
      [] OTHER -> name

\* a catalog that knows every city in every country
CitiesFindAnyCountry(cs, country, city) ==
    IF \E k \in DOMAIN cs : k[2] = city
    THEN Some(cs[CHOOSE k \in DOMAIN cs : k[2] = city])
    ELSE None

\* CITIES.find: the country's map, then the city in it
CitiesFind(cs, country, city) ==
    IF <<country, city>> \in DOMAIN cs THEN Some(cs[<<country, city>>]) ELSE None

\* the requests that are made: tests::forecast_endpoint, current_endpoint and
\* forecast_unknown_city, and a city of another country
Requests ==
    { <<"US", "Chicago">>, <<"RU", "Moscow">>, <<"US", "Sanity">>, <<"RU", "Chicago">> }

\* catalogs of two positions closer than any two real cities, under the
\* names of the real ones
ZeroCatalog ==
    (<<"US", "chicago">> :> Pos(PosZero, One)) @@ (<<"RU", "moscow">> :> Pos(NegZero, One))

EpsCatalog ==
    (<<"US", "chicago">> :> Pos(One, One)) @@ (<<"RU", "moscow">> :> Pos(OneEps, One))

TwoEpsCatalog ==
    (<<"US", "chicago">> :> Pos(One, One)) @@ (<<"RU", "moscow">> :> Pos(OnePlus2Eps, One))

\* a close catalog with keys of the hasher: the close positions hash apart,
\* except in EpsCatalog under the keys 4
ClosePlacements ==
    { <<ZeroCatalog, 1>>, <<EpsCatalog, 1>>, <<EpsCatalog, 4>>, <<TwoEpsCatalog, 1>> }

Range(f) == { f[x] : x \in DOMAIN f }

-----------------------------------------------------------------------------
(* Temperatures and forecasts *)

DAYS == 5

RECURSIVE GCD(_, _)
GCD(a, b) == IF b = 0 THEN a ELSE GCD(b, a % b)

Rat(n, d) ==
    With(<<n, d, GCD(Abs(n), d)>>, LAMBDA x : <<x[1] \div x[3], x[2] \div x[3]>>)

RatAdd(a, b) ==
    With(<<a, b>>, LAMBDA x : Rat(x[1][1] * x[2][2] + x[2][1] * x[1][2], x[1][2] * x[2][2]))

RatDiv(a, n) == With(a, LAMBDA x : Rat(x[1], x[2] * n))

Whole(n) == <<n, 1>>

\* provider::fake::stub(n).fetch: n, n+1, ..., n+4
Stub(n) == [i \in 1..DAYS |-> Whole(n + i - 1)]

\* forecasts provider p may answer with
Forecasts(p) ==
    IF p = 1 THEN { Stub(2), [i \in 1..DAYS |-> Whole(IF i = 5 THEN -9 ELSE i + 3)] }
    ELSE { Stub(4) }

\* failure a provider answers with (an anyhow error chain, outermost first)
ProviderError(p) ==
    IF p = 1 THEN <<"something bad happened">>
    ELSE <<"error requesting provider", "timed out">>

Ok(v) == [st |-> "ok", val |-> v, err |-> <<>>]
Err(e) == [st |-> "err", val |-> <<>>, err |-> e]
Created == [st |-> "created", val |-> <<>>, err |-> <<>>]
NoResult == [st |-> "none", val |-> <<>>, err |-> <<>>]

\* what provider p's fetch may resolve to
Outcomes(p) == { Ok(f) : f \in Forecasts(p) } \cup { Err(ProviderError(p)) }

\* the context message in place of the error, its cause lost
ContextReplaces(e, msg) == <<msg>>

\* anyhow's Context::context
Context(e, msg) == <<msg>> \o e

\* format!("{:#}", err): the chain joined with ": "
RECURSIVE Describe(_)
Describe(e) ==
    IF Len(e) = 1 THEN e[1] ELSE e[1] \o ": " \o Describe(Tail(e))

\* main.rs: what the request helper fetch hands to the route
StatusError(code, error) == [code |-> code, error |-> error, body |-> <<>>]

Found(p, resp) == [code |-> 200, error |-> "", body |-> <<p, resp>>]

NoReply == [code |-> 0, error |-> "", body |-> <<>>]

\* main.rs lines 101-109: the result of forecast(coordinates) as a reply
FetchReply(p, r) ==
    IF r.st = "ok" THEN Found(p, r.val) ELSE StatusError(500, Describe(r.err))

-----------------------------------------------------------------------------
(* Service::fetch_forecast, on the results join_all hands back *)

\* line 132 and lines 137-139: the per-day sums, accumulated provider by provider
RECURSIVE SumForecasts(_)
SumForecasts(rs) ==
    IF rs = <<>> THEN [i \in 1..DAYS |-> Whole(0)]
    ELSE With(SumForecasts(SubSeq(rs, 1, Len(rs) - 1)),
              LAMBDA acc : [i \in 1..DAYS |-> RatAdd(acc[i], rs[Len(rs)].val[i])])

\* the sums halved, whatever the number of providers
AverageOfTwo(rs, n) == [i \in 1..DAYS |-> RatDiv(SumForecasts(rs)[i], 2)]

\* lines 142-144: every sum divided by providers.len()
Average(rs, n) ==
    With(SumForecasts(rs), LAMBDA avg : [i \in 1..DAYS |-> RatDiv(avg[i], n)])

Failed(rs) == { i \in 1..Len(rs) : rs[i].st = "err" }

Min(S) == CHOOSE x \in S : \A y \in S : x <= y

\* the average of the providers that answered, an error only if none did
FetchForecastPartial(rs, n) ==
    LET oks == SelectSeq(rs, LAMBDA r : r.st = "ok")
    IN  IF oks = <<>>
        THEN Err(Context(rs[Min(Failed(rs))].err, "error while fetching forecast"))
        ELSE Ok(Average(oks, Len(oks)))

\* lines 134-146: the first error in provider order, with context, or the average
FetchForecast(rs, n) ==
    IF Failed(rs) # {}
    THEN Err(Context(rs[Min(Failed(rs))].err, "error while fetching forecast"))
    ELSE Ok(Average(rs, n))

\* lines 125-130: one fetch future per provider, none polled yet
FanOut(ps) == [i \in 1..Len(ps) |-> Created]

\* lines 128-130: the positions each provider's fetch is called with, in a call
Fetches(ps, p) == [i \in 1..Len(ps) |-> <<p>>]

\* try_join_all: resolves as soon as one future has failed
JoinReadyOnError(rs) ==
    \/ \A i \in 1..Len(rs) : rs[i].st # "created"
    \/ \E i \in 1..Len(rs) : rs[i].st = "err"

\* join_all resolves when every future has resolved
JoinReady(rs) == \A i \in 1..Len(rs) : rs[i].st # "created"

\* the results handed back in the order in which the futures completed
JoinAllCompletionOrder(rs, order) == [i \in 1..Len(order) |-> rs[order[i]]]

\* join_all hands the results back in the order of the futures it was given,
\* whatever the order in which they completed
JoinAll(rs, order) == rs

-----------------------------------------------------------------------------
(* The cache: HashMap<Pos, CacheEntry> behind a tokio RwLock *)

EmptyMap == [k \in {} |-> 0]

Uninit == <<>>

Entry(d, f) == [date |-> d, forecast |-> f]

\* the slots HashMap::get / insert can land on for key q: same hash tag, eq
Find(map, sd, q) == { k \in DOMAIN map : PosHash(sd, k) = PosHash(sd, q) /\ PosEq(k, q) }

\* an entry of the day before taken for today's
IsFreshYesterday(e, day) == e.date = day - 1

\* an entry of today or of any earlier day taken for fresh
IsFreshOrOlder(e, day) == e.date <= day

\* line 106
IsFresh(e, day) == e.date = day

\* line 116: the date of the entry built after the fetches
EntryDate(dayOfLookup, now) == now

\* entry().or_insert: an occupied slot is left as it is
InsertIfVacant(map, k, e, part) ==
    IF part = "date"
    THEN IF k \in DOMAIN map THEN map
         ELSE (k :> Entry(e.date, Uninit)) @@ map
    ELSE IF map[k].forecast = Uninit THEN [map EXCEPT ![k].forecast = e.forecast]
         ELSE map

\* an insert that also evicts the entries of other days
InsertEvicting(map, k, e, part) ==
    IF part = "date"
    THEN LET keep == { j \in DOMAIN map : j # k /\ map[j].date = e.date }
         IN  [j \in keep \cup {k} |->
                 IF j # k THEN map[j]
                 ELSE IF k \in DOMAIN map THEN [map[k] EXCEPT !.date = e.date]
                 ELSE Entry(e.date, Uninit)]
    ELSE [map EXCEPT ![k].forecast = e.forecast]

\* HashMap::insert, as the two memory writes of a CacheEntry: an occupied slot
\* k keeps its key and has its value replaced, a vacant one is filled
Insert(map, k, e, part) ==
    IF part = "date"
    THEN IF k \in DOMAIN map THEN [map EXCEPT ![k].date = e.date]
         ELSE (k :> Entry(e.date, Uninit)) @@ map
    ELSE [map EXCEPT ![k].forecast = e.forecast]

Waiter(t, m) == [task |-> t, mode |-> m]

\* a read guard granted while a writer holds the lock
CanReadIgnoresWriter(rs, w, q) == q = <<>>

\* RwLock::read is granted at once unless a writer holds or waits for the lock
CanRead(rs, w, q) == w = 0 /\ q = <<>>

\* a write guard granted while read guards are out
CanWriteIgnoresReaders(rs, w, q) == w = 0 /\ q = <<>>

\* RwLock::write needs every permit
CanWrite(rs, w, q) == w = 0 /\ rs = {} /\ q = <<>>

\* a release that wakes the waiting readers at the head of the queue and
\* never a waiting writer
GrantNoWriter(rs, w, q) ==
    IF q = <<>> \/ w # 0 \/ Head(q).mode # "r" THEN <<rs, w, q>>
    ELSE <<rs \cup {Head(q).task}, w, Tail(q)>>

\* releasing permits hands them to the waiters in FIFO order
RECURSIVE Grant(_, _, _)
Grant(rs, w, q) ==
    IF q = <<>> \/ w # 0 THEN <<rs, w, q>>
    ELSE IF Head(q).mode = "r" THEN Grant(rs \cup {Head(q).task}, w, Tail(q))
    ELSE IF rs = {} THEN <<rs, Head(q).task, Tail(q)>>
    ELSE <<rs, w, q>>

-----------------------------------------------------------------------------
(* A forecast() call *)

\* atStart, order and invoked record what happened (the entry of today the
\* cache held for pos when the call began, the order in which the fetches
\* completed, the fetches called); the code does not read them
Idle == [pc |-> "idle", req |-> <<>>, pos |-> <<>>, atStart |-> <<>>,
         lookupDay |-> -1, path |-> "none",
         futures |-> <<>>, order |-> <<>>, invoked |-> <<>>, entry |-> <<>>,
         slot |-> <<>>, result |-> NoResult, reply |-> NoReply]

\* the call has returned r, and fetch with it: the locals are dropped (what
\* is kept is the record of what the call did)
Returned(c, r) == [Idle EXCEPT !.pc = "done", !.req = c.req, !.pos = c.pos,
                               !.path = c.path, !.invoked = c.invoked, !.result = r,
                               !.reply = FetchReply(c.pos, r)]

\* the catalog's cities lie far apart, so that a lookup finds a slot exactly
\* when the bit-identical position is stored, whatever the hasher's keys
Init ==
    /\ svc = "init"
    /\ providers = <<>>
    /\ seed = 1
    /\ cities = Catalog
    /\ cache = EmptyMap
    /\ readers = {}
    /\ writer = 0
    /\ waitq = <<>>
    /\ calls = [t \in Tasks |-> Idle]
    /\ today \in Days
    /\ started = 0
    /\ lastStore = EmptyMap

\* any two-city catalog of close positions, any keys of the hasher
InitPos ==
    /\ svc = "init"
    /\ providers = <<>>
    /\ \E pl \in ClosePlacements : cities = pl[1] /\ seed = pl[2]
    /\ cache = EmptyMap
    /\ readers = {}
    /\ writer = 0
    /\ waitq = <<>>
    /\ calls = [t \in Tasks |-> Idle]
    /\ today \in Days
    /\ started = 0
    /\ lastStore = EmptyMap

\* Service::new without the check of line 92
NewUnchecked(ps) ==
    /\ svc = "init"
    /\ svc' = "ready"
    /\ providers' = ps
    /\ UNCHANGED <<seed, cities, cache, readers, writer, waitq, calls, today, started,
                   lastStore>>

\* Service::new
New(ps) ==
    /\ svc = "init"
    /\ IF Len(ps) = 0
       THEN /\ svc' = "panicked"
            /\ UNCHANGED providers
       ELSE /\ svc' = "ready"
            /\ providers' = ps
    /\ UNCHANGED <<seed, cities, cache, readers, writer, waitq, calls, today, started,
                   lastStore>>

\* the complete entry of day d that map holds under p, if any
EntryOfDay(map, w, p, d) ==
    IF p \in DOMAIN map /\ w = 0 /\ map[p].date = d THEN <<map[p]>> ELSE <<>>

\* forecast(p) is called for request rq, on the first task that is free, and
\* asks for the read lock (line 103)
Forecast(t, rq, p) ==
    /\ svc = "ready"
    /\ calls[t].pc \in {"idle", "done"}
    /\ \A u \in 1..(t - 1) : calls[u].pc \notin {"idle", "done"}
    /\ started < MaxCalls
    /\ started' = started + 1
    /\ calls' = [calls EXCEPT ![t] = [Idle EXCEPT !.pc = "lookup", !.req = rq, !.pos = p,
                        !.atStart = EntryOfDay(cache, writer, p, today)]]
    /\ IF CanRead(readers, writer, waitq)
       THEN readers' = readers \cup {t} /\ waitq' = waitq
       ELSE readers' = readers /\ waitq' = Append(waitq, Waiter(t, "r"))
    /\ UNCHANGED <<svc, providers, seed, cities, cache, writer, today, lastStore>>

\* main.rs lines 94-99: the city is not in the catalog, forecast is not called
NotFound(t, rq) ==
    /\ svc = "ready"
    /\ calls[t].pc \in {"idle", "done"}
    /\ \A u \in 1..(t - 1) : calls[u].pc \notin {"idle", "done"}
    /\ started < MaxCalls
    /\ started' = started + 1
    /\ calls' = [calls EXCEPT ![t] =
           [Idle EXCEPT !.pc = "done", !.req = rq, !.path = "notfound",
                        !.reply = StatusError(404, "City not found")]]
    /\ UNCHANGED <<svc, providers, seed, cities, cache, readers, writer, waitq, today,
                   lastStore>>

\* main.rs lines 89-101: the request helper, up to the call of forecast
Fetch(t, rq) ==
    LET coordinates == CitiesFind(cities, rq[1], ToLowercase(rq[2]))
    IN  IF coordinates = None
        THEN NotFound(t, rq)
        ELSE Forecast(t, rq, coordinates[1])

\* the read guard of task t is dropped
ReleaseRead(t) ==
    LET g == Grant(readers \ {t}, writer, waitq)
    IN  readers' = g[1] /\ writer' = g[2] /\ waitq' = g[3]

\* the read guard kept across the slow path
DropLate(t) == UNCHANGED <<readers, writer, waitq>>

\* line 112: drop(rcache) before the slow path
Drop(t) == ReleaseRead(t)

\* lines 105-108: the entry is there and of today
LookupHit(t) ==
    /\ calls[t].pc = "lookup"
    /\ t \in readers
    /\ \E k \in Find(cache, seed, calls[t].pos) :
          /\ IsFresh(cache[k], today)
          /\ calls' = [calls EXCEPT ![t] =
                 Returned([@ EXCEPT !.path = "hit"], Ok(cache[k].forecast))]
    /\ ReleaseRead(t)
    /\ UNCHANGED <<svc, providers, seed, cities, cache, today, started, lastStore>>

\* lines 105-112 and 125-134: no entry, or one of another day; the guard is
\* dropped, the fetch futures are created and join_all is awaited
LookupMiss(t) ==
    /\ calls[t].pc = "lookup"
    /\ t \in readers
    /\ \/ /\ Find(cache, seed, calls[t].pos) = {}
          /\ calls' = [calls EXCEPT ![t].pc = "join", ![t].path = "absent",
                                    ![t].atStart = <<>>,
                                    ![t].lookupDay = today,
                                    ![t].futures = FanOut(providers),
                                    ![t].invoked = Fetches(providers, calls[t].pos)]
       \/ \E k \in Find(cache, seed, calls[t].pos) :
             /\ ~IsFresh(cache[k], today)
             /\ calls' = [calls EXCEPT ![t].pc = "join", ![t].path = "stale",
                                       ![t].atStart = <<>>,
                                       ![t].lookupDay = today,
                                       ![t].futures = FanOut(providers),
                                       ![t].invoked = Fetches(providers, calls[t].pos)]
    /\ Drop(t)
    /\ UNCHANGED <<svc, providers, seed, cities, cache, today, started, lastStore>>

\* a failed fetch is called once more instead of being handed to join_all
ResolvedRetry(c, i, r) ==
    IF r.st = "err" /\ Len(c.invoked[i]) < 2
    THEN [c EXCEPT !.invoked[i] = Append(@, c.pos)]
    ELSE [c EXCEPT !.futures[i] = r, !.order = Append(@, i)]

\* the call after provider i's future has resolved to r: the result is kept
\* for join_all, nothing is called again
Resolved(c, i, r) == [c EXCEPT !.futures[i] = r, !.order = Append(@, i)]

\* provider i's fetch, polled by join_all, resolves
Reply(t, i) ==
    /\ calls[t].pc = "join"
    /\ i \in 1..Len(calls[t].futures)
    /\ calls[t].futures[i] = Created
    /\ \E r \in Outcomes(i) : calls' = [calls EXCEPT ![t] = Resolved(@, i, r)]
    /\ UNCHANGED <<svc, providers, seed, cities, cache, readers, writer, waitq,
                   today, started, lastStore>>

\* lines 134-135 and 113: a provider failed, the call returns the error
JoinErr(t) ==
    /\ calls[t].pc = "join"
    /\ JoinReady(calls[t].futures)
    /\ \E r \in { FetchForecast(JoinAll(calls[t].futures, calls[t].order),
                                 Len(providers)) } :
           /\ r.st = "err"
           /\ calls' = [calls EXCEPT ![t] = Returned(@, r)]
    /\ UNCHANGED <<svc, providers, seed, cities, cache, readers, writer, waitq,
                   today, started, lastStore>>

\* lines 134-146 and 113-119: the average, the entry, the request for the
\* write lock
JoinOk(t) ==
    /\ calls[t].pc = "join"
    /\ JoinReady(calls[t].futures)
    /\ \E r \in { FetchForecast(JoinAll(calls[t].futures, calls[t].order),
                                 Len(providers)) } :
           /\ r.st = "ok"
           /\ calls' = [calls EXCEPT
                 ![t].pc = "insert",
                 ![t].futures = <<>>,
                 ![t].order = <<>>,
                 ![t].entry = <<Entry(EntryDate(calls[t].lookupDay, today), r.val)>>]
    /\ IF CanWrite(readers, writer, waitq)
       THEN writer' = t /\ waitq' = waitq
       ELSE writer' = writer /\ waitq' = Append(waitq, Waiter(t, "w"))
    /\ UNCHANGED <<svc, providers, seed, cities, cache, readers, today, started,
                   lastStore>>

\* line 119, under the write guard: the slot is found or made, the date written
InsertDate(t) ==
    /\ calls[t].pc = "insert"
    /\ writer = t
    /\ LET ks == Find(cache, seed, calls[t].pos)
       IN  \E k \in (IF ks = {} THEN {calls[t].pos} ELSE ks) :
              /\ cache' = Insert(cache, k, calls[t].entry[1], "date")
              /\ lastStore' = (k :> calls[t].entry[1]) @@ lastStore
              /\ calls' = [calls EXCEPT ![t].pc = "insert2", ![t].slot = <<k>>]
    /\ UNCHANGED <<svc, providers, seed, cities, readers, writer, waitq, today,
                   started>>

\* lines 119-121: the forecast written, the write guard dropped, Ok(result)
InsertForecast(t) ==
    /\ calls[t].pc = "insert2"
    /\ writer = t
    /\ cache' = Insert(cache, calls[t].slot[1], calls[t].entry[1], "forecast")
    /\ calls' = [calls EXCEPT ![t] = Returned(@, Ok(calls[t].entry[1].forecast))]
    /\ LET g == Grant(readers, 0, waitq)
       IN  readers' = g[1] /\ writer' = g[2] /\ waitq' = g[3]
    /\ UNCHANGED <<svc, providers, seed, cities, today, started, lastStore>>

\* the local calendar day changes (midnight, or the clock or time zone is set)
ClockChange ==
    /\ today' \in Days \ {today}
    /\ UNCHANGED <<svc, providers, seed, cities, cache, readers, writer, waitq,
                   calls, started, lastStore>>

ProviderLists == { [i \in 1..n |-> i] : n \in 0..MaxProviders }

Next ==
    \/ \E ps \in ProviderLists : New(ps)
    \/ \E t \in Tasks : \E rq \in Requests : Fetch(t, rq)
    \/ \E t \in Tasks : LookupHit(t)
    \/ \E t \in Tasks : LookupMiss(t)
    \/ \E t \in Tasks : \E i \in 1..MaxProviders : Reply(t, i)
    \/ \E t \in Tasks : JoinErr(t)
    \/ \E t \in Tasks : JoinOk(t)
    \/ \E t \in Tasks : InsertDate(t)
    \/ \E t \in Tasks : InsertForecast(t)
    \/ ClockChange

Spec == Init /\ [][Next]_vars

\* the steps of the call on task t: its lookup, its fetches resolving, its
\* join, its insert
Step(t) ==
    \/ LookupHit(t)
    \/ LookupMiss(t)
    \/ \E i \in 1..MaxProviders : Reply(t, i)
    \/ JoinErr(t)
    \/ JoinOk(t)
    \/ InsertDate(t)
    \/ InsertForecast(t)

\* the program serving at most FewCalls requests
NextFew ==
    \/ \E ps \in ProviderLists : New(ps)
    \/ \E t \in Tasks : \E rq \in Requests : started < FewCalls /\ Fetch(t, rq)
    \/ \E t \in Tasks : Step(t)
    \/ ClockChange

\* a few requests on a catalog of close positions
SpecPos == InitPos /\ [][NextFew]_vars

\* the runtime polls every task that can run, and every provider fetch
\* completes or fails in the end
FairSpec == Init /\ [][NextFew]_vars /\ \A t \in Tasks : WF_vars(Step(t))

-----------------------------------------------------------------------------
(* Vocabulary of the properties *)

\* task t returns from forecast() in this step
Returns(t) == calls[t].pc # "done" /\ calls'[t].pc = "done"

\* task t leaves the cache lookup in this step
LeavesLookup(t) == calls[t].pc = "lookup" /\ calls'[t].pc # "lookup"

\* join_all of task t hands its results back in this step
LeavesJoin(t) == calls[t].pc = "join" /\ calls'[t].pc # "join"

\* the cache holds an entry under exactly the position p
Holds(p) == p \in DOMAIN cache

RECURSIVE SumDay(_, _)
SumDay(rs, d) ==
    IF rs = <<>> THEN 0 ELSE rs[1].val[d][1] + SumDay(Tail(rs), d)

\* f is, day by day, the arithmetic mean of the (whole-numbered) forecasts rs
IsMean(f, rs) ==
    \A d \in 1..DAYS : f[d][2] > 0 /\ f[d][1] * Len(rs) = f[d][2] * SumDay(rs, d)

AllOk(rs) == \A i \in 1..Len(rs) : rs[i].st = "ok"

SomeErr(rs) == \E i \in 1..Len(rs) : rs[i].st = "err"

Waiting(t) == \E i \in 1..Len(waitq) : waitq[i].task = t

\* a request is taken up by task t in this step
Begins(t) ==
    /\ started' = started + 1
    /\ calls[t].pc \in {"idle", "done"}
    /\ \A u \in 1..(t - 1) : calls[u].pc \notin {"idle", "done"}

\* the catalog has the city of request rq (lower-cased) under rq's country
InCatalog(rq) == \E k \in DOMAIN cities : k[1] = rq[1] /\ k[2] = ToLowercase(rq[2])

-----------------------------------------------------------------------------
\* C1: a forecast(pos) call that finds an entry for pos dated today returns
\* exactly that entry's forecast, creates no provider fetch and leaves the
\* cache as it is.
C1_CacheHitShortCircuit ==
    /\ [][\A t \in Tasks :
            (/\ LeavesLookup(t)
             /\ Holds(calls[t].pos)
             /\ cache[calls[t].pos].date = today)
            => /\ calls'[t].pc = "done"
               /\ calls'[t].result = Ok(cache[calls[t].pos].forecast)
               /\ calls'[t].futures = <<>>
               /\ cache' = cache]_vars
    /\ [](\A t \in Tasks : calls[t].path = "hit" =>
            calls[t].pc = "done" /\ calls[t].futures = <<>> /\ calls[t].entry = <<>>)

C1_Witness ==
    \E t \in Tasks :
        /\ calls[t].pc = "done" /\ calls[t].path = "hit"
        /\ Holds(calls[t].pos)
        /\ calls[t].result = Ok(cache[calls[t].pos].forecast)

\* C2: a forecast(pos) call that finds an entry for pos of another day
\* (earlier or later) returns nothing from it and starts one fetch per provider;
\* when that call succeeds, the entry for pos holds the forecast it returns.
C2_StaleEntryIsMiss ==
    /\ [][\A t \in Tasks :
            (/\ LeavesLookup(t)
             /\ Holds(calls[t].pos)
             /\ cache[calls[t].pos].date # today)
            => /\ calls'[t].pc = "join"
               /\ calls'[t].result = NoResult
               /\ calls'[t].futures = [i \in 1..Len(providers) |-> Created]]_vars
    /\ [][\A t \in Tasks :
            (Returns(t) /\ calls[t].path = "stale" /\ calls'[t].result.st = "ok")
            => /\ calls[t].pc = "insert2"
               /\ calls[t].pos \in DOMAIN cache'
               /\ cache'[calls[t].pos].forecast = calls'[t].result.val
               /\ calls'[t].result.val = calls[t].entry[1].forecast]_vars

C2_Witness ==
    \E t \in Tasks :
        /\ calls[t].pc = "done" /\ calls[t].path = "stale"
        /\ calls[t].result.st = "ok"
        /\ cache[calls[t].pos].forecast = calls[t].result.val

\* C3: when every provider of a call has answered, the forecast the call
\* stores and returns is, for each of the five days, the sum of the providers'
\* values divided by the number of providers (one provider: its forecast as
\* it is; [2,3,4,5,6] and [4,5,6,7,8] give [3,4,5,6,7]).
C3_AveragingCorrect ==
    /\ [][\A t \in Tasks :
            (LeavesJoin(t) /\ AllOk(calls[t].futures))
            => /\ calls'[t].pc = "insert"
               /\ Len(calls[t].futures) = Len(providers)
               /\ IsMean(calls'[t].entry[1].forecast, calls[t].futures)
               /\ (Len(providers) = 1 =>
                      calls'[t].entry[1].forecast = calls[t].futures[1].val)]_vars
    /\ [][\A t \in Tasks :
            calls[t].entry # <<>>
            => \/ calls'[t].entry = calls[t].entry
               \/ /\ Returns(t)
                  /\ calls'[t].result = Ok(calls[t].entry[1].forecast)]_vars
    /\ [](FetchForecast(<<Ok(Stub(2)), Ok(Stub(4))>>, 2) = Ok(Stub(3)))

C3_Witness ==
    \E t \in Tasks :
        /\ calls[t].pc = "done" /\ calls[t].path # "hit"
        /\ Len(providers) = 2
        /\ calls[t].result.st = "ok"
        /\ calls[t].result.val[5] = <<-1, 2>>

\* C4: when some provider of a call has failed, the call returns an error,
\* never a forecast, and the error reads "error while fetching forecast: "
\* followed by the description of a failed provider's error.
C4_AllOrNothing ==
    [][\A t \in Tasks :
         (LeavesJoin(t) /\ SomeErr(calls[t].futures))
         => /\ Returns(t)
            /\ calls'[t].result.st = "err"
            /\ \E i \in 1..Len(calls[t].futures) :
                  /\ calls[t].futures[i].st = "err"
                  /\ Describe(calls'[t].result.err) =
                       "error while fetching forecast: "
                           \o Describe(calls[t].futures[i].err)]_vars

C4_Witness ==
    \E t \in Tasks :
        /\ calls[t].pc = "done"
        /\ Len(providers) = 2
        /\ calls[t].result.st = "err"
        /\ Describe(calls[t].result.err) =
             "error while fetching forecast: error requesting provider: timed out"

\* C5: a call one of whose providers failed never stores: it returns without
\* asking for the write lock and the cache is the same before and after; the
\* cache changes only in the insert of a call all of whose providers answered.
C5_NoStoreOnError ==
    /\ [][\A t \in Tasks :
            (LeavesJoin(t) /\ SomeErr(calls[t].futures))
            => /\ Returns(t)
               /\ cache' = cache
               /\ writer' # t
               /\ ~Waiting(t)']_vars
    /\ [][cache' # cache =>
            \E t \in Tasks : /\ writer = t
                             /\ calls[t].pc \in {"insert", "insert2"}
                             /\ calls[t].entry # <<>>]_vars
    /\ [](\A t \in Tasks : calls[t].pc = "done" /\ calls[t].result.st = "err"
            => calls[t].entry = <<>> /\ writer # t /\ ~Waiting(t))

C5_Witness ==
    \E t \in Tasks :
        /\ calls[t].pc = "done"
        /\ calls[t].result.st = "err"
        /\ Holds(calls[t].pos)

\* positions whose coordinates differ by at most f32::EPSILON, component by
\* component (bit-identical positions and +0.0 against -0.0 included)
Close(a, b) ==
    \A i \in 1..2 : F32Val(a[i]) - F32Val(b[i]) \in (0 - EPSILON)..EPSILON

\* C6: a lookup under position b hits an entry of today stored under any
\* position a within epsilon of b, and misses when no stored position is
\* within epsilon of b.
C6_ToleranceKey ==
    [][\A t \in Tasks :
         LeavesLookup(t)
         => /\ (\E k \in DOMAIN cache :
                   Close(k, calls[t].pos) /\ cache[k].date = today)
               => calls'[t].path = "hit"
            /\ (\A k \in DOMAIN cache : ~Close(k, calls[t].pos))
               => calls'[t].path = "absent"]_vars

\* C7: whenever the cache can be read (no insert is under way, or some call
\* holds a read guard), every entry in it is, date and forecast together, the
\* entry handed to the last insert into its slot; a hit returns such a pair.
C7_NoTornEntries ==
    /\ (writer = 0 \/ readers # {}) =>
          \A k \in DOMAIN cache : k \in DOMAIN lastStore /\ cache[k] = lastStore[k]
    /\ \A t \in Tasks : writer = t => calls[t].pc \in {"insert", "insert2"}

C7_Witness ==
    \E t \in Tasks : \E u \in Tasks :
        /\ t \in readers /\ calls[t].pc = "lookup"
        /\ calls[u].pc = "insert" /\ Waiting(u)
        /\ calls[u].pos = calls[t].pos
        /\ Holds(calls[t].pos)
        /\ cache[calls[t].pos] # calls[u].entry[1]

\* C8: the fetch of every provider is created before any of them is polled,
\* and the call leaves join_all only when every fetch has answered or failed,
\* also when an earlier provider has failed already.
C8_FanOutJoin ==
    /\ [][\A t \in Tasks :
            (calls[t].futures = <<>> /\ calls'[t].futures # <<>>)
            => calls'[t].futures = [i \in 1..Len(providers) |-> Created]]_vars
    /\ [][\A t \in Tasks :
            LeavesJoin(t)
            => /\ Len(calls[t].futures) = Len(providers)
               /\ \A i \in 1..Len(providers) :
                     calls[t].futures[i].st \in {"ok", "err"}]_vars
    /\ [](\A t \in Tasks :
            /\ calls[t].pc = "join" => Len(calls[t].futures) = Len(providers)
            /\ calls[t].pc = "done" => calls[t].futures = <<>>)

C8_Witness ==
    \E t \in Tasks :
        /\ calls[t].pc = "join"
        /\ Len(calls[t].futures) = 2
        /\ calls[t].futures[1].st = "err"
        /\ calls[t].futures[2] = Created

\* C9: the entry a call builds and stores is dated with the day on which the
\* call looked the cache up, also when the day changes during the fetches.
C9_StoredDayIsLookupDay ==
    \A t \in Tasks :
        calls[t].entry # <<>> => calls[t].entry[1].date = calls[t].lookupDay

\* what the code does instead: the entry is dated with the day it is when the
\* entry is built, after the fetches, and is stored with that date
StoredDayIsBuildDay ==
    /\ [][\A t \in Tasks :
            (calls[t].entry = <<>> /\ calls'[t].entry # <<>>)
            => calls'[t].entry[1].date = today /\ today' = today]_vars
    /\ [][\A t \in Tasks :
            (calls[t].pc = "insert" /\ calls'[t].pc = "insert2")
            => /\ calls'[t].entry = calls[t].entry
               /\ cache'[calls'[t].slot[1]].date = calls[t].entry[1].date]_vars

\* C10: a call that missed and whose providers all answered builds its entry
\* from its own fetches, and when its insert completes the entry for pos is
\* that entry and its forecast the value returned, whatever another call
\* stored there before.
C10_LastStoreWins ==
    /\ [][\A t \in Tasks :
            (calls[t].pc # "insert" /\ calls'[t].pc = "insert")
            => /\ calls[t].pc = "join"
               /\ calls[t].path \in {"absent", "stale"}
               /\ Len(calls[t].futures) = Len(providers)
               /\ AllOk(calls[t].futures)
               /\ IsMean(calls'[t].entry[1].forecast, calls[t].futures)]_vars
    /\ [][\A t \in Tasks :
            (calls[t].pc = "insert2" /\ Returns(t))
            => /\ calls[t].pos \in DOMAIN cache'
               /\ cache'[calls[t].pos] = calls[t].entry[1]
               /\ calls'[t].result = Ok(calls[t].entry[1].forecast)]_vars

C10_Witness ==
    \E t \in Tasks : \E u \in Tasks :
        /\ t # u
        /\ calls[t].pc = "done" /\ calls[u].pc = "done"
        /\ calls[t].pos = calls[u].pos
        /\ calls[t].path = "absent" /\ calls[u].path = "absent"
        /\ calls[t].result.st = "ok" /\ calls[u].result.st = "ok"
        /\ calls[t].result # calls[u].result
        /\ cache[calls[t].pos].forecast = calls[u].result.val

\* C11: a call whose provider fetches are in flight holds neither the read
\* guard nor the write guard and does not wait for either; a call that is
\* begun while no store is under way or queued gets its read guard at once,
\* and with a read guard and an entry of today it completes its hit in its
\* lookup, while the fetches of the other calls stay pending.
C11_HitsNeverWait ==
    /\ [](\A t \in Tasks :
            calls[t].pc = "join"
            => t \notin readers /\ writer # t /\ ~Waiting(t))
    /\ [][\A u \in Tasks :
            (/\ calls[u].pc # "lookup" /\ calls'[u].pc = "lookup"
             /\ writer = 0 /\ waitq = <<>>)
            => u \in readers']_vars
    /\ [][\A u \in Tasks : \A t \in Tasks :
            (/\ LeavesLookup(u)
             /\ Holds(calls[u].pos)
             /\ cache[calls[u].pos].date = today
             /\ calls[t].pc = "join")
            => /\ calls'[u].pc = "done"
               /\ calls'[u].path = "hit"
               /\ calls'[t] = calls[t]]_vars

C11_Witness ==
    \E t \in Tasks : \E u \in Tasks :
        /\ calls[t].pc = "join"
        /\ \E i \in 1..Len(calls[t].futures) : calls[t].futures[i] = Created
        /\ calls[u].pc = "lookup" /\ u \in readers
        /\ calls[u].pos = calls[t].pos
        /\ Holds(calls[u].pos)
        /\ cache[calls[u].pos].date = today

\* C12: Service::new with an empty provider list panics and never yields a
\* service: a service that is ready has at least one provider, a panicked one
\* stays panicked and runs no call, and every call that averages divides by
\* a provider count of at least one.
C12_NonEmptyProviders ==
    /\ [](svc = "ready" => Len(providers) >= 1)
    /\ [](svc = "panicked" =>
            providers = <<>> /\ started = 0 /\ \A t \in Tasks : calls[t] = Idle)
    /\ [][svc = "panicked" => svc' = "panicked"]_vars
    /\ [](\A t \in Tasks :
            calls[t].pc # "idle" => svc = "ready" /\ Len(providers) >= 1)
    /\ [][\A t \in Tasks :
            LeavesJoin(t)
            => Len(calls[t].futures) >= 1 /\ Len(calls[t].futures) = Len(providers)]_vars

C12_Witness == svc = "panicked" /\ providers = <<>>

\* C13: a request for a (country, city) that the catalog does not have is
\* answered 404 "City not found" in the step that takes it up: forecast is
\* not called, no fetch is created, no guard is asked for and the cache is
\* unchanged; only such requests are answered 404.
C13_UnknownCity ==
    /\ [][\A t \in Tasks :
            (Begins(t) /\ ~InCatalog(calls'[t].req))
            => /\ calls'[t].pc = "done"
               /\ calls'[t].reply =
                     [code |-> 404, error |-> "City not found", body |-> <<>>]
               /\ calls'[t].pos = <<>>
               /\ calls'[t].futures = <<>>
               /\ calls'[t].result = NoResult
               /\ cache' = cache
               /\ readers' = readers /\ writer' = writer /\ waitq' = waitq]_vars
    /\ [](\A t \in Tasks :
            calls[t].reply.code = 404
            => calls[t].path = "notfound" /\ ~InCatalog(calls[t].req))
    /\ [](\A t \in Tasks :
            calls[t].pc \in {"lookup", "join", "insert", "insert2"}
            => /\ InCatalog(calls[t].req)
               /\ calls[t].pos = cities[<<calls[t].req[1], ToLowercase(calls[t].req[2])>>])

C13_Witness ==
    \E t \in Tasks :
        /\ calls[t].pc = "done"
        /\ calls[t].req = <<"US", "Sanity">>
        /\ calls[t].reply.code = 404
        /\ calls[t].reply.error = "City not found"
        /\ cache # EmptyMap

\* C14: when providers of a call have failed, the error the call returns is
\* the context message put before the error of exactly one of them, the
\* first failed provider in the order of the provider list; the outcome
\* (that error, or the average) is fixed by the providers' results, whatever
\* the order in which the fetches completed.
C14_FirstErrorAnyOrder ==
    /\ [][\A t \in Tasks :
            (LeavesJoin(t) /\ SomeErr(calls[t].futures))
            => \E i \in 1..Len(calls[t].futures) :
                  /\ calls[t].futures[i].st = "err"
                  /\ \A j \in 1..(i - 1) : calls[t].futures[j].st = "ok"
                  /\ calls'[t].result =
                        Err(<<"error while fetching forecast">> \o calls[t].futures[i].err)]_vars
    /\ [][\A t \in Tasks :
            (LeavesJoin(t) /\ AllOk(calls[t].futures))
            => IsMean(calls'[t].entry[1].forecast, calls[t].futures)]_vars
    /\ [](\A t \in Tasks :
            calls[t].pc = "join"
            => /\ Len(calls[t].order) = Cardinality({ i \in 1..Len(calls[t].futures) :
                                                       calls[t].futures[i] # Created })
               /\ \A i \in 1..Len(calls[t].order) :
                     calls[t].futures[calls[t].order[i]] # Created)

C14_Witness ==
    \E t \in Tasks :
        /\ calls[t].pc = "join"
        /\ calls[t].order = <<2, 1>>
        /\ calls[t].futures[1].st = "err"
        /\ calls[t].futures[2].st = "err"

\* C15: a call whose lookup misses calls every provider's fetch exactly once,
\* with the call's position, whether it ends in a forecast or in an error;
\* a call whose lookup hits calls none; a fetch that has answered or failed is
\* not called again.
C15_NoRetry ==
    /\ [](\A t \in Tasks :
            /\ calls[t].path \in {"absent", "stale"}
               => calls[t].invoked = [i \in 1..Len(providers) |-> <<calls[t].pos>>]
            /\ calls[t].path \in {"none", "hit", "notfound"}
               => calls[t].invoked = <<>>)
    /\ [][\A t \in Tasks :
            calls'[t].invoked # calls[t].invoked => LeavesLookup(t) \/ Begins(t)]_vars
    /\ [][\A t \in Tasks : \A i \in 1..Len(calls[t].futures) :
            (calls[t].pc = "join" /\ calls[t].futures[i] # Created)
            => \/ LeavesJoin(t)
               \/ calls'[t].futures[i] = calls[t].futures[i]]_vars
    /\ [][\A t \in Tasks :
            (calls'[t].pc = "join" /\ calls[t].pc # "join") => LeavesLookup(t)]_vars

C15_Witness ==
    \E t \in Tasks : \E u \in Tasks :
        /\ calls[t].pc = "done" /\ calls[t].path = "stale"
        /\ calls[t].result.st = "err"
        /\ calls[t].invoked = <<<<calls[t].pos>>, <<calls[t].pos>>>>
        /\ calls[u].pc = "done" /\ calls[u].path = "hit"
        /\ calls[u].invoked = <<>>

\* C16: no step removes a position from the cache; a step that adds or
\* changes an entry is a write of the insert of a call for exactly that
\* position, and changes no other entry; a lookup that reads a stale entry as
\* a miss, and a call that fails, leave the cache as it is.
C16_Frame ==
    /\ [][/\ DOMAIN cache \subseteq DOMAIN cache'
          /\ \A k \in DOMAIN cache' :
                (k \notin DOMAIN cache \/ cache'[k] # cache[k])
                => \E t \in Tasks :
                      /\ writer = t
                      /\ calls[t].pc \in {"insert", "insert2"}
                      /\ calls[t].pos = k
                      /\ \A j \in DOMAIN cache : j # k => cache'[j] = cache[j]]_vars
    /\ [][\A t \in Tasks :
            (LeavesLookup(t) \/ LeavesJoin(t)) => cache' = cache]_vars

C16_Witness ==
    \E t \in Tasks :
        /\ calls[t].pc = "done" /\ calls[t].path = "stale"
        /\ calls[t].result.st = "err"
        /\ Holds(calls[t].pos)
        /\ cache[calls[t].pos].date # today
        /\ Cardinality(DOMAIN cache) = 2

\* C17: while a call holds the cache for its store no other call holds it,
\* for a lookup or for a store; read guards are held only by calls in their
\* lookup, the write guard only by a call in its insert, and a call that
\* begins while other calls hold read guards and no store holds or waits
\* joins them.
C17_ReadManyWriteOne ==
    /\ [](\A t \in Tasks :
            writer = t
            => /\ readers = {}
               /\ calls[t].pc \in {"insert", "insert2"}
               /\ \A u \in Tasks \ {t} :
                     /\ calls[u].pc # "insert2"
                     /\ calls[u].pc = "insert" => Waiting(u)
                     /\ calls[u].pc = "lookup" => Waiting(u))
    /\ [](\A t \in Tasks :
            /\ t \in readers => calls[t].pc = "lookup" /\ ~Waiting(t)
            /\ calls[t].pc = "lookup" => t \in readers \/ Waiting(t)
            /\ calls[t].pc = "insert" => writer = t \/ Waiting(t)
            /\ calls[t].pc = "insert2" => writer = t)
    /\ [][\A u \in Tasks :
            (/\ calls[u].pc # "lookup" /\ calls'[u].pc = "lookup"
             /\ readers # {} /\ writer = 0 /\ waitq = <<>>)
            => readers' = readers \cup {u} /\ Cardinality(readers') >= 2]_vars

C17_Witness ==
    \E t \in Tasks : \E u \in Tasks :
        /\ writer = t /\ calls[t].pc = "insert2"
        /\ calls[u].pc = "lookup" /\ Waiting(u)
        /\ readers = {}

\* C18: a call for pos that begins on the day of the entry stored for pos by
\* an earlier successful call, the entry being the same when the call looks
\* it up, returns that entry's forecast, the one the storing call returned,
\* and calls no provider.
C18_RepeatServedFromCache ==
    [][\A t \in Tasks :
         (/\ LeavesLookup(t)
          /\ calls[t].atStart # <<>>
          /\ Holds(calls[t].pos)
          /\ cache[calls[t].pos] = calls[t].atStart[1])
         => /\ calls'[t].path = "hit"
            /\ calls'[t].result = Ok(calls[t].atStart[1].forecast)
            /\ calls'[t].invoked = <<>>]_vars

\* what the code guarantees instead: the repeat call is served from the cache
\* when the day has not changed between its beginning and its lookup
RepeatServedOnLookupDay ==
    [][\A t \in Tasks :
         (/\ LeavesLookup(t)
          /\ calls[t].atStart # <<>>
          /\ Holds(calls[t].pos)
          /\ cache[calls[t].pos] = calls[t].atStart[1]
          /\ calls[t].atStart[1].date = today)
         => /\ calls'[t].path = "hit"
            /\ calls'[t].result = Ok(lastStore[calls[t].pos].forecast)
            /\ calls'[t].invoked = <<>>]_vars

\* the positions the cache's map has been handed, as keys or in lookups
PositionsInPlay ==
    DOMAIN cache \cup { calls[t].pos : t \in { u \in Tasks : calls[u].pos # <<>> } }

\* C19: on the positions handed to the map, == is reflexive, symmetric and
\* transitive, and positions that are == have the same hash.
C19_HashEqConsistent ==
    \A a \in PositionsInPlay : \A b \in PositionsInPlay : \A c \in PositionsInPlay :
        /\ PosEq(a, a)
        /\ PosEq(a, b) => PosEq(b, a)
        /\ (PosEq(a, b) /\ PosEq(b, c)) => PosEq(a, c)
        /\ PosEq(a, b) => PosHash(seed, a) = PosHash(seed, b)

\* C20: under fair scheduling, with every fetch completing or failing in the
\* end, every call that has begun returns, whatever the other calls do; no
\* call waits for the cache lock for ever.
C20_Termination ==
    \A t \in Tasks :
        (calls[t].pc \in {"lookup", "join", "insert", "insert2"}) ~> (calls[t].pc = "done")

C20_Witness ==
    \E t \in Tasks : \E u \in Tasks :
        /\ calls[t].pc = "insert" /\ Waiting(t)
        /\ calls[u].pc = "lookup" /\ u \in readers

====
